---- MODULE Spec2Model ----
(***************************************************************************)
(* A model of bikeshare.py: the loader (load_data with its nested          *)
(* filter_by_period), the four statistics routines, format_duration and    *)
(* the interactive session driven by main.                                 *)
(*                                                                         *)
(* Text the program manipulates character by character (what the user      *)
(* types, the month/day arguments of load_data) is a sequence of           *)
(* one-character strings, so that strip(), lower() and title() are         *)
(* computed.  Text the program only compares or prints (cell values,       *)
(* messages) is a TLA+ string.  A float is a fraction [num, den]; den = 0  *)
(* is NaN.                                                                 *)
(***************************************************************************)
EXTENDS Integers, Sequences, FiniteSets, TLC

VARIABLES pc, city, month, day, csv, df, err, out, row_index, seconds, choice, typed

vars == <<pc, city, month, day, csv, df, err, out, row_index, seconds, choice, typed>>

(***************************************************************************)
(* Bounds of the model.                                                    *)
(***************************************************************************)
\* longest data file, in rows
MaxRows == 2
\* largest whole number of seconds handed to format_duration
MaxSeconds == 100000
\* fractional seconds handed to format_duration: means n / d of d trips, with
\* n up to MaxTotal and d up to MaxTrips
MaxTotal == 400
MaxTrips == 3

(***************************************************************************)
(* Python str methods, on sequences of one-character strings.              *)
(***************************************************************************)
ascii_lowercase == <<"a","b","c","d","e","f","g","h","i","j","k","l","m",
                     "n","o","p","q","r","s","t","u","v","w","x","y","z">>
ascii_uppercase == <<"A","B","C","D","E","F","G","H","I","J","K","L","M",
                     "N","O","P","Q","R","S","T","U","V","W","X","Y","Z">>

Range(s) == {s[i] : i \in DOMAIN s}

IsUpper(c) == c \in Range(ascii_uppercase)
IsLower(c) == c \in Range(ascii_lowercase)
IsCased(c) == IsUpper(c) \/ IsLower(c)

IndexOf(s, x) == CHOOSE i \in DOMAIN s : s[i] = x

char_lower(c) == IF IsUpper(c) THEN ascii_lowercase[IndexOf(ascii_uppercase, c)] ELSE c
char_upper(c) == IF IsLower(c) THEN ascii_uppercase[IndexOf(ascii_lowercase, c)] ELSE c

\* str.lower()
str_lower(s) == [i \in DOMAIN s |-> char_lower(s[i])]

\* str.title(): a cased character is upper-cased when it follows an uncased
\* one (or starts the string) and lower-cased otherwise
str_title(s) ==
    [i \in DOMAIN s |->
        IF i = 1 \/ ~IsCased(s[i - 1]) THEN char_upper(s[i]) ELSE char_lower(s[i])]

\* str.strip(): leading and trailing whitespace removed
str_strip(s) ==
    LET keep == {i \in DOMAIN s : s[i] # " "}
    IN  IF keep = {} THEN <<>>
        ELSE LET lo == CHOOSE i \in keep : \A j \in keep : i <= j
                 hi == CHOOSE i \in keep : \A j \in keep : j <= i
             IN  SubSeq(s, lo, hi)

\* the characters of s as one string
RECURSIVE Text(_)
Text(s) == IF s = <<>> THEN "" ELSE s[1] \o Text(Tail(s))

\* sep.join(parts), parts a sequence of strings
RECURSIVE Join(_, _)
Join(sep, parts) ==
    IF parts = <<>> THEN ""
    ELSE IF Len(parts) = 1 THEN parts[1]
    ELSE parts[1] \o sep \o Join(sep, Tail(parts))

(***************************************************************************)
(* Module-level constants of bikeshare.py.                                 *)
(***************************************************************************)
CITY_DATA == [c \in {"chicago", "new york city", "washington"} |->
                 CASE c = "chicago" -> "chicago.csv"
                   [] c = "new york city" -> "new_york_city.csv"
                   [] c = "washington" -> "washington.csv"]

VALID_MONTHS == <<"january", "february", "march", "april", "may", "june">>

VALID_DAYS == <<"monday", "tuesday", "wednesday", "thursday", "friday",
                "saturday", "sunday">>

ALL_OPTION == "all"

DATETIME_COLUMNS == {"Start Time", "End Time"}

(***************************************************************************)
(* Tables.  A data file is a header (its set of columns) and its lines; a  *)
(* DataFrame is its set of columns and its rows, each row its index label  *)
(* and its cells (a function on the columns).                              *)
(***************************************************************************)
INDEX_COL == "Unnamed: 0"

CSV_COLUMNS == {INDEX_COL, "Start Time", "End Time", "Trip Duration",
                "Start Station", "End Station", "User Type", "Gender",
                "Birth Year"}

\* a missing value in a column of strings
NA == "<NA>"

\* floats
Float(n) == [num |-> n, den |-> 1]
nan == [num |-> 0, den |-> 0]
isnan(x) == x.den = 0

Timestamp(m, wd, h) == [month |-> m, weekday |-> wd, hour |-> h]

\* the trips the data files are made of
Trips == <<
    [start |-> Timestamp(3, 0, 8),  dur |-> 90,   ss |-> "Canal St", es |-> "Dock Ave",
     ut |-> "Subscriber", g |-> "Male",   by |-> Float(1980)],
    [start |-> Timestamp(3, 1, 17), dur |-> 45,   ss |-> NA,         es |-> "Canal St",
     ut |-> "Customer",   g |-> NA,       by |-> nan],
    [start |-> Timestamp(6, 0, 8),  dur |-> 3661, ss |-> "Dock Ave", es |-> NA,
     ut |-> "Subscriber", g |-> "Female", by |-> Float(1992)],
    [start |-> Timestamp(7, 6, 23), dur |-> 74,   ss |-> "Dock Ave", es |-> "Dock Ave",
     ut |-> NA,           g |-> "Male",   by |-> Float(1980)] >>

\* line i of a file, holding trip t, under the full header
Line(i, t) ==
    [c \in CSV_COLUMNS |->
        CASE c = INDEX_COL -> i - 1
          [] c = "Start Time" -> t.start
          [] c = "End Time" -> t.start
          [] c = "Trip Duration" -> Float(t.dur)
          [] c = "Start Station" -> t.ss
          [] c = "End Station" -> t.es
          [] c = "User Type" -> t.ut
          [] c = "Gender" -> t.g
          [] c = "Birth Year" -> t.by]

Restrict(f, S) == [c \in S |-> f[c]]

\* the headers a data file may have: the full one, Washington's (no Gender,
\* no Birth Year), and the full one less one column
Headers ==
    {CSV_COLUMNS, CSV_COLUMNS \ {"Gender", "Birth Year"}}
    \cup {CSV_COLUMNS \ {c} : c \in {"User Type", "Trip Duration", "Start Time",
                                     "End Station", INDEX_COL}}

SeqsUpTo(S, n) == UNION {[1..k -> S] : k \in 0..n}

\* the data files ./data/ may hold
CsvFiles ==
    {[header |-> h,
      lines |-> [i \in DOMAIN ts |-> Restrict(Line(i, Trips[ts[i]]), h)]] :
        h \in Headers, ts \in SeqsUpTo(DOMAIN Trips, MaxRows)}

\* no file at the path
NoFile == [header |-> {}, lines |-> <<>>]

NoTable == [columns |-> {}, rows |-> <<>>]

\* an exception in flight, and no exception
Raise(type, msg) == [type |-> type, msg |-> msg]
NoError == Raise("", "")

(***************************************************************************)
(* load_data and its nested filter_by_period.  A call's outcome is         *)
(* [err, df]: the exception it raises (NoError when it returns) and the    *)
(* table it returns.                                                       *)
(***************************************************************************)
MONTH_NAMES == <<"January", "February", "March", "April", "May", "June", "July",
                 "August", "September", "October", "November", "December">>

DAY_NAMES == <<"Monday", "Tuesday", "Wednesday", "Thursday", "Friday",
               "Saturday", "Sunday">>

\* Series.dt.month_name(), Series.dt.day_name(), on one timestamp
month_name(ts) == MONTH_NAMES[ts.month]
day_name(ts) == DAY_NAMES[ts.weekday + 1]

\* Series.astype(str) on one value of a column of strings: a missing value
\* becomes the string "nan" (pandas before 3.0) or, when keeps_na, stays
\* missing (pandas 3.0, whose str dtype keeps missing values)
astype_str(v, keeps_na) == IF v = NA /\ ~keeps_na THEN "nan" ELSE v

\* Series.fillna(value) on one value
fillna(v, value) == IF v = NA THEN value ELSE v

\* lines 146-150: the Trip label of one row
trip_label(cells, keeps_na) ==
    fillna(astype_str(cells["Start Station"], keeps_na), "No Start Station")
    \o " to "
    \o fillna(astype_str(cells["End Station"], keeps_na), "No End Station")

\* pd.read_csv(filename, parse_dates=..., index_col="Unnamed: 0") on a file
\* that is there and has the columns asked for
read_csv(file) ==
    [columns |-> file.header \ {INDEX_COL},
     rows |-> [i \in DOMAIN file.lines |->
                 [index |-> file.lines[i][INDEX_COL],
                  cells |-> Restrict(file.lines[i], file.header \ {INDEX_COL})]]]

\* df[name] = values, values holding one value per row
with_column(t, name, values) ==
    [columns |-> t.columns \cup {name},
     rows |-> [i \in DOMAIN t.rows |->
                 [index |-> t.rows[i].index,
                  cells |-> [c \in t.columns \cup {name} |->
                               IF c = name THEN values[i]
                               ELSE t.rows[i].cells[c]]]]]

\* lines 143-150
add_derived_columns(t, keeps_na) ==
    LET t1 == with_column(t, "Month",
                  [i \in DOMAIN t.rows |-> month_name(t.rows[i].cells["Start Time"])])
        t2 == with_column(t1, "Day Name",
                  [i \in DOMAIN t.rows |-> day_name(t.rows[i].cells["Start Time"])])
    IN  with_column(t2, "Trip",
                  [i \in DOMAIN t.rows |-> trip_label(t.rows[i].cells, keeps_na)])

\* df_input[df_input[col_name] == value]
select_rows(df_input, col_name, value) ==
    LET Keep(r) == r.cells[col_name] = value
    IN  [columns |-> df_input.columns, rows |-> SelectSeq(df_input.rows, Keep)]

\* filter_by_period comparing the column with the lower-cased name (title()
\* forgotten)
filter_by_period_untitled(df_input, col_name, period_name, period_input, valid_periods) ==
    LET p == str_lower(str_strip(period_input))
    IN  IF Text(p) # ALL_OPTION
        THEN IF Text(p) \notin Range(valid_periods)
             THEN [err |-> Raise("ValueError",
                                 "Invalid " \o period_name \o ": " \o Text(p)),
                   df |-> NoTable]
             ELSE [err |-> NoError,
                   df |-> select_rows(df_input, col_name, Text(p))]
        ELSE [err |-> NoError, df |-> df_input]

\* filter_by_period comparing with "all" before lower-casing
filter_by_period_cased_all(df_input, col_name, period_name, period_input, valid_periods) ==
    LET p == str_lower(str_strip(period_input))
    IN  IF Text(str_strip(period_input)) # ALL_OPTION
        THEN IF Text(p) \notin Range(valid_periods)
             THEN [err |-> Raise("ValueError",
                                 "Invalid " \o period_name \o ": " \o Text(p)),
                   df |-> NoTable]
             ELSE [err |-> NoError,
                   df |-> select_rows(df_input, col_name, Text(str_title(p)))]
        ELSE [err |-> NoError, df |-> df_input]

\* filter_by_period without the check against valid_periods
filter_by_period_unchecked(df_input, col_name, period_name, period_input, valid_periods) ==
    LET p == str_lower(str_strip(period_input))
    IN  IF Text(p) # ALL_OPTION
        THEN [err |-> NoError,
              df |-> select_rows(df_input, col_name, Text(str_title(p)))]
        ELSE [err |-> NoError, df |-> df_input]

filter_by_period(df_input, col_name, period_name, period_input, valid_periods) ==
    LET p == str_lower(str_strip(period_input))
    IN  IF Text(p) # ALL_OPTION
        THEN IF Text(p) \notin Range(valid_periods)
             THEN [err |-> Raise("ValueError",
                                 "Invalid " \o period_name \o ": " \o Text(p)),
                   df |-> NoTable]
             ELSE [err |-> NoError,
                   df |-> select_rows(df_input, col_name, Text(str_title(p)))]
        ELSE [err |-> NoError, df |-> df_input]

\* load_data(city, month, day), reading file at the city's path; timestamps
\* always parse (every row has a Start Time)
load_data(city_, month_, day_, file, keeps_na) ==
    LET key == Text(str_lower(city_))
        failed(type, msg) == [err |-> Raise(type, msg), df |-> NoTable]
    IN  IF key \notin DOMAIN CITY_DATA
        THEN failed("ValueError", "Invalid city name: " \o Text(city_))
        ELSE IF file = NoFile
        THEN failed("FileNotFoundError", "File not found: ./data/" \o CITY_DATA[key])
        ELSE IF ~(DATETIME_COLUMNS \subseteq file.header)
        THEN failed("ValueError", "Required column(s) missing in the CSV file.")
        ELSE IF INDEX_COL \notin file.header
        THEN failed("ValueError", "Index Unnamed: 0 invalid")
        ELSE IF "Start Station" \notin file.header
        THEN failed("KeyError", "'Start Station'")
        ELSE IF "End Station" \notin file.header
        THEN failed("KeyError", "'End Station'")
        ELSE LET t0 == add_derived_columns(read_csv(file), keeps_na)
                 r1 == filter_by_period(t0, "Month", "month", month_, VALID_MONTHS)
             IN  IF r1.err # NoError THEN r1
                 ELSE filter_by_period(r1.df, "Day Name", "day", day_, VALID_DAYS)

(***************************************************************************)
(* format_duration.  A call's outcome is [err, text].                      *)
(***************************************************************************)
\* int(round(x)) for x = n / d >= 0: Python rounds a half to the even integer
round_half_even(n, d) ==
    LET q == n \div d
        r == n % d
    IN  IF 2 * r < d THEN q
        ELSE IF 2 * r > d THEN q + 1
        ELSE IF q % 2 = 0 THEN q ELSE q + 1

\* lines 297-308: the components that are shown, joined by spaces
duration_text(days, hours, minutes, secs) ==
    LET d == IF days > 0 THEN <<ToString(days) \o " days">> ELSE <<>>
        h == IF hours > 0 THEN <<ToString(hours) \o " hours">> ELSE <<>>
        m == IF minutes > 0 THEN <<ToString(minutes) \o " minutes">> ELSE <<>>
        duration == d \o h \o m
        s == IF secs > 0 \/ duration = <<>>
             THEN <<ToString(secs) \o " seconds">> ELSE <<>>
    IN  Join(" ", duration \o s)

\* format_duration taking the minutes from the remainder of the day instead
\* of the remainder of the hour
format_duration_minutes_of_day(x) ==
    IF isnan(x)
    THEN [err |-> Raise("ValueError", "cannot convert float NaN to integer"),
          text |-> ""]
    ELSE LET days == x.num \div (86400 * x.den)
             hours == (x.num % (86400 * x.den)) \div (3600 * x.den)
             minutes == (x.num % (86400 * x.den)) \div (60 * x.den)
             secs == round_half_even(x.num % (60 * x.den), x.den)
         IN  [err |-> NoError, text |-> duration_text(days, hours, minutes, secs)]

\* format_duration(x), x a float of seconds, x >= 0 or NaN: int() of NaN
\* raises ValueError
format_duration(x) ==
    IF isnan(x)
    THEN [err |-> Raise("ValueError", "cannot convert float NaN to integer"),
          text |-> ""]
    ELSE LET days == x.num \div (86400 * x.den)
             hours == (x.num % (86400 * x.den)) \div (3600 * x.den)
             minutes == (x.num % (3600 * x.den)) \div (60 * x.den)
             secs == round_half_even(x.num % (60 * x.den), x.den)
         IN  [err |-> NoError, text |-> duration_text(days, hours, minutes, secs)]

(***************************************************************************)
(* The statistics routines.  A call's outcome is [err, out]: the exception *)
(* that leaves the routine (NoError when it returns) and the lines it      *)
(* printed.  Inside a routine, a step's outcome is [exc, lines].           *)
(***************************************************************************)
RECURSIVE Repeat(_, _)
Repeat(c, n) == IF n = 0 THEN "" ELSE c \o Repeat(c, n - 1)

SEPARATORS == [sep1 |-> Repeat("=", 100), sep2 |-> Repeat("-", 100),
               sep3 |-> Repeat("*", 100)]

\* the wall-clock time a routine reports is not modelled
ELAPSED_LINE == "\nThis took <elapsed> seconds to run."

\* df[name], as the sequence of its values
column(t, name) == [i \in DOMAIN t.rows |-> t.rows[i].cells[name]]

\* the values of a column of strings that are not missing
dropna_text(s) ==
    LET Present(v) == v # NA
    IN  SelectSeq(s, Present)

\* the values of a column of floats that are not NaN
dropna_float(s) ==
    LET Present(v) == ~isnan(v)
    IN  SelectSeq(s, Present)

count_of(s, v) == Cardinality({i \in DOMAIN s : s[i] = v})

\* the most frequent values of s
modes(s) == {v \in Range(s) : \A w \in Range(s) : count_of(s, w) <= count_of(s, v)}

\* the order of Python strings on the texts a column of strings can hold
STATION_ORDER == <<"Canal St", "Dock Ave", "No End Station", "No Start Station", "nan">>
TEXT_ORDER ==
    <<"April", "August", "December", "February", "January", "July", "June",
      "March", "May", "November", "October", "September">>
    \o <<"Friday", "Monday", "Saturday", "Sunday", "Thursday", "Tuesday", "Wednesday">>
    \o STATION_ORDER
    \o [k \in 1..(Len(STATION_ORDER) * Len(STATION_ORDER)) |->
          STATION_ORDER[((k - 1) \div Len(STATION_ORDER)) + 1] \o " to "
          \o STATION_ORDER[((k - 1) % Len(STATION_ORDER)) + 1]]

\* Series.mode().iat[0] on a column of strings: the smallest of the most
\* frequent values that are not missing; IndexError when there is none
mode_text(s) ==
    LET ms == modes(dropna_text(s))
    IN  IF ms = {}
        THEN [exc |-> Raise("IndexError",
                            "index 0 is out of bounds for axis 0 with size 0"),
              value |-> ""]
        ELSE [exc |-> NoError,
              value |-> CHOOSE v \in ms :
                           \A w \in ms : IndexOf(TEXT_ORDER, v) <= IndexOf(TEXT_ORDER, w)]

\* Series.mode().iat[0] on a sequence of integers
mode_int(s) ==
    LET ms == modes(s)
    IN  IF ms = {}
        THEN [exc |-> Raise("IndexError",
                            "index 0 is out of bounds for axis 0 with size 0"),
              value |-> 0]
        ELSE [exc |-> NoError, value |-> CHOOSE v \in ms : \A w \in ms : v <= w]

\* df[name] on a table without that column
KeyError(name) == Raise("KeyError", "'" \o name \o "'")

\* the try / except (AttributeError, IndexError) / finally around the body of
\* a routine: body is the outcome [exc, lines] of the try block
try_except_finally(title, what, body) ==
    LET caught == body.exc.type \in {"AttributeError", "IndexError"}
    IN  [err |-> IF caught THEN NoError ELSE body.exc,
         out |-> <<title, SEPARATORS.sep2>>
                 \o body.lines
                 \o (IF caught
                     THEN <<"Error calculating " \o what \o ": " \o body.exc.msg>>
                     ELSE <<>>)
                 \o <<ELAPSED_LINE, SEPARATORS.sep1>>]

\* lines 204-213
time_stats_body(t) ==
    IF "Month" \notin t.columns THEN [exc |-> KeyError("Month"), lines |-> <<>>]
    ELSE LET most_common_month == mode_text(column(t, "Month"))
    IN  IF most_common_month.exc # NoError
        THEN [exc |-> most_common_month.exc, lines |-> <<>>]
    ELSE IF "Day Name" \notin t.columns
        THEN [exc |-> KeyError("Day Name"), lines |-> <<>>]
    ELSE LET most_common_dow == mode_text(column(t, "Day Name"))
    IN  IF most_common_dow.exc # NoError
        THEN [exc |-> most_common_dow.exc, lines |-> <<>>]
    ELSE IF "Start Time" \notin t.columns
        THEN [exc |-> KeyError("Start Time"), lines |-> <<>>]
    ELSE LET hours == [i \in DOMAIN t.rows |-> t.rows[i].cells["Start Time"].hour]
             most_common_start_hr == mode_int(hours)
    IN  IF most_common_start_hr.exc # NoError
        THEN [exc |-> most_common_start_hr.exc, lines |-> <<>>]
    ELSE [exc |-> NoError,
          lines |-> <<"The most common month is " \o most_common_month.value \o ".",
                      "The most common day of week is " \o most_common_dow.value \o ".",
                      "The most common start hour is "
                          \o ToString(most_common_start_hr.value) \o ".">>]

time_stats(t) ==
    try_except_finally("\nCalculating the Most Frequent Times of Travel...",
                       "time stats", time_stats_body(t))

\* lines 242-251
station_stats_body(t) ==
    IF "Start Station" \notin t.columns
    THEN [exc |-> KeyError("Start Station"), lines |-> <<>>]
    ELSE LET most_common_start_station == mode_text(column(t, "Start Station"))
    IN  IF most_common_start_station.exc # NoError
        THEN [exc |-> most_common_start_station.exc, lines |-> <<>>]
    ELSE IF "End Station" \notin t.columns
        THEN [exc |-> KeyError("End Station"), lines |-> <<>>]
    ELSE LET most_common_end_station == mode_text(column(t, "End Station"))
    IN  IF most_common_end_station.exc # NoError
        THEN [exc |-> most_common_end_station.exc, lines |-> <<>>]
    ELSE IF "Trip" \notin t.columns
        THEN [exc |-> KeyError("Trip"), lines |-> <<>>]
    ELSE LET most_frequent_trip == mode_text(column(t, "Trip"))
    IN  IF most_frequent_trip.exc # NoError
        THEN [exc |-> most_frequent_trip.exc, lines |-> <<>>]
    ELSE [exc |-> NoError,
          lines |-> <<"The most commonly used start station is "
                          \o most_common_start_station.value \o ".",
                      "The most commonly used end station is "
                          \o most_common_end_station.value \o ".",
                      "The most frequent trip is " \o most_frequent_trip.value \o ".">>]

station_stats(t) ==
    try_except_finally("\nCalculating the Most Popular Stations and Trip...",
                       "station stats", station_stats_body(t))

\* np.sum of floats: 0.0 for none
RECURSIVE np_sum(_)
np_sum(s) ==
    IF s = <<>> THEN Float(0)
    ELSE LET rest == np_sum(Tail(s))
         IN  [num |-> s[1].num * rest.den + rest.num * s[1].den,
              den |-> s[1].den * rest.den]

\* np.mean of floats: NaN (with a RuntimeWarning, no exception) for none
np_mean(s) == [num |-> np_sum(s).num, den |-> np_sum(s).den * Len(s)]

\* lines 310-330
trip_duration_stats_body(t) ==
    IF "Trip Duration" \notin t.columns
    THEN [exc |-> KeyError("Trip Duration"), lines |-> <<>>]
    ELSE LET trip_durations == column(t, "Trip Duration")
             total_travel_time_fmt == format_duration(np_sum(trip_durations))
             mean_travel_time_fmt == format_duration(np_mean(trip_durations))
    IN  IF total_travel_time_fmt.err # NoError
        THEN [exc |-> total_travel_time_fmt.err, lines |-> <<>>]
    ELSE IF mean_travel_time_fmt.err # NoError
        THEN [exc |-> mean_travel_time_fmt.err, lines |-> <<>>]
    ELSE [exc |-> NoError,
          lines |-> <<"The total travel time is " \o total_travel_time_fmt.text \o ".",
                      "The mean travel time is " \o mean_travel_time_fmt.text \o ".">>]

trip_duration_stats(t) ==
    try_except_finally("\nCalculating Trip Duration...",
                       "trip duration stats", trip_duration_stats_body(t))


\* Series.value_counts() on a column of strings: each value that is not
\* missing with its count, the most frequent first (equal counts in the
\* order the values first appear)
RECURSIVE value_counts_from(_, _)
value_counts_from(s, todo) ==
    IF todo = {} THEN <<>>
    ELSE LET first(v) == CHOOSE i \in DOMAIN s : s[i] = v /\ \A j \in 1..(i - 1) : s[j] # v
             top == CHOOSE v \in todo :
                       \A w \in todo :
                          \/ count_of(s, w) < count_of(s, v)
                          \/ count_of(s, w) = count_of(s, v) /\ first(v) <= first(w)
         IN  <<[value |-> top, count |-> count_of(s, top)]>>
             \o value_counts_from(s, todo \ {top})

value_counts(s) == value_counts_from(dropna_text(s), Range(dropna_text(s)))

\* the text of a value_counts() Series in an f-string
counts_text(vc) ==
    IF vc = <<>> THEN "Series([], Name: count, dtype: int64)"
    ELSE Join("\n", [i \in DOMAIN vc |-> vc[i].value \o " " \o ToString(vc[i].count)])

\* lines 373-386: the Birth Year report, with its own try / except ValueError
birth_year_lines(t) ==
    LET birth_years == dropna_float(column(t, "Birth Year"))
        years == [i \in DOMAIN birth_years |-> birth_years[i].num \div birth_years[i].den]
    IN  IF birth_years = <<>>
        THEN <<"Error processing birth years: zero-size array to reduction "
                   \o "operation fmin which has no identity",
               "Birth year data may contain invalid values.\n">>
        ELSE <<"Earliest birth year: "
                   \o ToString(CHOOSE y \in Range(years) : \A z \in Range(years) : y <= z),
               "Most recent birth year: "
                   \o ToString(CHOOSE y \in Range(years) : \A z \in Range(years) : z <= y),
               "Most common birth year: " \o ToString(mode_int(years).value) \o "\n">>

\* user_stats without the inner try / except ValueError around the Birth
\* Year report: the failure of np.nanmin leaves the routine
user_stats_body_no_inner_try(t) ==
    IF "Birth Year" \in t.columns /\ dropna_float(column(t, "Birth Year")) = <<>>
    THEN [exc |-> Raise("ValueError", "zero-size array to reduction operation "
                                      \o "fmin which has no identity"),
          lines |->
             (IF "User Type" \in t.columns
              THEN <<"User Counts:\n" \o counts_text(value_counts(column(t, "User Type"))) \o "\n">>
              ELSE <<>>)
             \o (IF "Gender" \in t.columns
                 THEN <<"Gender Counts:\n" \o counts_text(value_counts(column(t, "Gender"))) \o "\n">>
                 ELSE <<>>)]
    ELSE [exc |-> NoError,
          lines |->
             (IF "User Type" \in t.columns
              THEN <<"User Counts:\n" \o counts_text(value_counts(column(t, "User Type"))) \o "\n">>
              ELSE <<>>)
             \o (IF "Gender" \in t.columns
                 THEN <<"Gender Counts:\n" \o counts_text(value_counts(column(t, "Gender"))) \o "\n">>
                 ELSE <<>>)
             \o (IF "Birth Year" \in t.columns THEN birth_year_lines(t) ELSE <<>>)]

\* lines 365-386
user_stats_body(t) ==
    [exc |-> NoError,
     lines |->
        (IF "User Type" \in t.columns
         THEN <<"User Counts:\n" \o counts_text(value_counts(column(t, "User Type"))) \o "\n">>
         ELSE <<>>)
        \o (IF "Gender" \in t.columns
            THEN <<"Gender Counts:\n" \o counts_text(value_counts(column(t, "Gender"))) \o "\n">>
            ELSE <<>>)
        \o (IF "Birth Year" \in t.columns THEN birth_year_lines(t) ELSE <<>>)]

user_stats(t) ==
    try_except_finally("\nCalculating Users Stats...", "user stats", user_stats_body(t))

\* stats_funcs, by __name__
STATS_FUNCS == <<"time_stats", "station_stats", "trip_duration_stats", "user_stats">>

\* stats_funcs[i](df)
call_stats_func(name, t) ==
    CASE name = "time_stats" -> time_stats(t)
      [] name = "station_stats" -> station_stats(t)
      [] name = "trip_duration_stats" -> trip_duration_stats(t)
      [] name = "user_stats" -> user_stats(t)


(***************************************************************************)
(* What callers pass and users type, character by character.               *)
(***************************************************************************)
\* city arguments: a known name, one in another casing, one unknown
RawCities ==
    {<<"c", "h", "i", "c", "a", "g", "o">>,
     <<"W", "a", "s", "h", "i", "n", "g", "t", "o", "n">>,
     <<"p", "a", "r", "i", "s">>}

\* month arguments: valid names in several casings, a month outside
\* january..june, a misspelling, an abbreviation, "all" and the empty string
RawMonths ==
    {<<"m", "a", "r", "c", "h">>,
     <<"M", "A", "R", "C", "H">>,
     <<" ", "m", "A", "r", "C", "h", " ">>,
     <<"J", "u", "n", "e">>,
     <<"m", "a", "y">>,
     <<"j", "u", "l", "y">>,
     <<"M", "a", "r", "c", "h", "x">>,
     <<"m", "a", "r">>,
     <<"a", "l", "l">>,
     <<" ", "A", "l", "l">>,
     <<>>}

\* day arguments
RawDays ==
    {<<"m", "o", "n", "d", "a", "y">>,
     <<"T", "u", "e", "s", "d", "a", "y">>,
     <<"s", "u", "n", "d", "a", "y">>,
     <<"m", "o", "n">>,
     <<"a", "l", "l">>,
     <<"a", "L", "L">>,
     <<>>}


(***************************************************************************)
(* SpecLoad: load_data called with arbitrary arguments, on whatever file   *)
(* is at the city's path.  csv records the file found there.               *)
(***************************************************************************)
InitLoad ==
    /\ pc = "call"
    /\ city \in RawCities
    /\ month \in RawMonths
    /\ day \in RawDays
    /\ csv = NoFile
    /\ df = NoTable
    /\ err = NoError
    /\ out = <<>>
    /\ row_index = 0
    /\ seconds = nan
    /\ choice = ""
    /\ typed = <<>>

CallLoadData ==
    /\ pc = "call"
    /\ \E file \in CsvFiles \cup {NoFile}, keeps_na \in BOOLEAN :
          LET r == load_data(city, month, day, file, keeps_na)
          IN  /\ csv' = file
              /\ df' = r.df
              /\ err' = r.err
              /\ pc' = IF r.err = NoError THEN "returned" ELSE "raised"
    /\ UNCHANGED <<city, month, day, out, row_index, seconds, choice, typed>>

NextLoad == CallLoadData

SpecLoad == InitLoad /\ [][NextLoad]_vars

(***************************************************************************)
(* Properties of load_data and filter_by_period, under SpecLoad.           *)
(***************************************************************************)
\* the month and day arguments, lower-cased; and trimmed and lower-cased
MonthLower == Text(str_lower(month))
DayLower == Text(str_lower(day))
MonthKey == Text(str_lower(str_strip(month)))
DayKey == Text(str_lower(str_strip(day)))

\* the number of a period name in its list, 0 when it is not in the list
NumberIn(names, key) == IF key \in Range(names) THEN IndexOf(names, key) ELSE 0

\* the call got as far as the filters: the city is known and its file is
\* there with the columns the loader needs
FilterReached ==
    /\ pc # "call"
    /\ Text(str_lower(city)) \in DOMAIN CITY_DATA
    /\ csv # NoFile
    /\ DATETIME_COLUMNS \cup {INDEX_COL, "Start Station", "End Station"}
          \subseteq csv.header

DERIVED_COLUMNS == {"Month", "Day Name", "Trip"}

\* df holds exactly the lines exp of the file, in their order, with the
\* file's cells unchanged and the derived columns present
RowsAre(exp) ==
    /\ df.columns = (csv.header \ {INDEX_COL}) \cup DERIVED_COLUMNS
    /\ Len(df.rows) = Len(exp)
    /\ \A i \in DOMAIN df.rows :
          /\ df.rows[i].index = exp[i][INDEX_COL]
          /\ DOMAIN df.rows[i].cells = df.columns
          /\ \A c \in csv.header \ {INDEX_COL} : df.rows[i].cells[c] = exp[i][c]
          /\ df.rows[i].cells["Month"] = MONTH_NAMES[exp[i]["Start Time"].month]
          /\ df.rows[i].cells["Day Name"] = DAY_NAMES[exp[i]["Start Time"].weekday + 1]

\* the lines of the file in the requested month (any month when that is
\* "all") and on the requested day (any day when that is "all")
RequestedLines ==
    LET Requested(line) ==
            /\ MonthKey # ALL_OPTION =>
                  line["Start Time"].month = NumberIn(VALID_MONTHS, MonthKey)
            /\ DayKey # ALL_OPTION =>
                  line["Start Time"].weekday + 1 = NumberIn(VALID_DAYS, DayKey)
    IN  SelectSeq(csv.lines, Requested)

\* C1: with a valid month or day name in any letter casing, load_data returns
\* exactly the rows of the file whose Month / Day Name is the title-cased
\* name: none dropped, none added, in their order, cells unchanged; every
\* returned row has the requested Month and the requested Day Name.
C1_FilterSelectsExactly ==
    (FilterReached /\ pc = "returned"
        /\ (MonthLower \in Range(VALID_MONTHS) \/ DayLower \in Range(VALID_DAYS)))
    => /\ RowsAre(RequestedLines)
       /\ MonthLower \in Range(VALID_MONTHS) =>
             \A i \in DOMAIN df.rows :
                df.rows[i].cells["Month"] = Text(str_title(str_lower(month)))
       /\ DayLower \in Range(VALID_DAYS) =>
             \A i \in DOMAIN df.rows :
                df.rows[i].cells["Day Name"] = Text(str_title(str_lower(day)))

\* a month and a day name, neither in lower case, keep some rows of the file
\* and drop others
C1_Witness ==
    /\ FilterReached /\ pc = "returned"
    /\ MonthLower \in Range(VALID_MONTHS) /\ Text(month) # MonthLower
    /\ DayLower \in Range(VALID_DAYS) /\ Text(day) # DayLower
    /\ Len(df.rows) >= 1
    /\ Len(df.rows) < Len(csv.lines)

\* the month filter raised / the day filter raised, naming value key
InvalidMonth(key) ==
    pc = "raised" /\ err = Raise("ValueError", "Invalid month: " \o key) /\ df = NoTable
InvalidDay(key) ==
    pc = "raised" /\ err = Raise("ValueError", "Invalid day: " \o key) /\ df = NoTable

\* C2, as claimed: a requested value that is "all" in any casing, or empty,
\* filters nothing and raises nothing; the table comes back whole.
C2_AllOrEmptyUnfiltered ==
    (FilterReached /\ MonthKey \in {ALL_OPTION, ""} /\ DayKey \in {ALL_OPTION, ""})
    => pc = "returned" /\ RowsAre(csv.lines)

\* C2, amended: a requested value that is "all" in any casing (surrounding
\* whitespace ignored) filters nothing and raises nothing: with both filters
\* "all" the table comes back whole, with one of them "all" the rows are
\* those the other filter alone selects.  An empty requested value is not
\* "all": filter_by_period raises the invalid-period error for it.
C2_AllUnfiltered ==
    FilterReached
    => /\ (MonthKey = ALL_OPTION /\ DayKey = ALL_OPTION)
             => pc = "returned" /\ RowsAre(csv.lines)
       /\ (MonthKey = ALL_OPTION /\ DayKey \in Range(VALID_DAYS))
             => pc = "returned" /\ RowsAre(RequestedLines)
       /\ (MonthKey \in Range(VALID_MONTHS) /\ DayKey = ALL_OPTION)
             => pc = "returned" /\ RowsAre(RequestedLines)
       /\ MonthKey = "" => InvalidMonth("")
       /\ (MonthKey \in Range(VALID_MONTHS) \cup {ALL_OPTION} /\ DayKey = "")
             => InvalidDay("")

\* "all" not in lower case for the month and for the day: a file with rows
\* comes back whole
C2_Witness ==
    /\ FilterReached /\ pc = "returned"
    /\ MonthKey = ALL_OPTION /\ Text(month) # ALL_OPTION
    /\ DayKey = ALL_OPTION /\ Text(day) # ALL_OPTION
    /\ Len(df.rows) = Len(csv.lines)
    /\ Len(df.rows) >= 2

\* C3, as claimed: a requested month or day that, lower-cased, is neither
\* "all" nor a valid name is refused with the invalid-period error; a valid
\* name is accepted in every casing.
C3_InvalidAfterLowerRefused ==
    FilterReached
    => /\ MonthLower \notin Range(VALID_MONTHS) \cup {ALL_OPTION}
             => pc = "raised" /\ err.type = "ValueError" /\ df = NoTable
       /\ (MonthLower \in Range(VALID_MONTHS) \cup {ALL_OPTION}
           /\ DayLower \notin Range(VALID_DAYS) \cup {ALL_OPTION})
             => pc = "raised" /\ err.type = "ValueError" /\ df = NoTable
       /\ (MonthLower \in Range(VALID_MONTHS) \cup {ALL_OPTION}
           /\ DayLower \in Range(VALID_DAYS) \cup {ALL_OPTION})
             => pc = "returned"

\* C3, amended: a requested month or day that, trimmed of surrounding
\* whitespace and lower-cased, is neither "all" nor a valid name is refused
\* with ValueError "Invalid month: <value>" / "Invalid day: <value>" (the
\* value as trimmed and lower-cased), the month being checked first, and no
\* table is returned; a valid name is accepted in every casing.
C3_InvalidPeriodRefused ==
    FilterReached
    => /\ MonthKey \notin Range(VALID_MONTHS) \cup {ALL_OPTION}
             => InvalidMonth(MonthKey)
       /\ (MonthKey \in Range(VALID_MONTHS) \cup {ALL_OPTION}
           /\ DayKey \notin Range(VALID_DAYS) \cup {ALL_OPTION})
             => InvalidDay(DayKey)
       /\ (MonthKey \in Range(VALID_MONTHS) \cup {ALL_OPTION}
           /\ DayKey \in Range(VALID_DAYS) \cup {ALL_OPTION})
             => pc = "returned"

\* "Marchx" has been refused as a month
C3_Witness ==
    /\ FilterReached
    /\ Text(month) = "Marchx"
    /\ InvalidMonth("marchx")

\* C8: in every row load_data returns, Trip is "{Start Station} to
\* {End Station}", with "No Start Station" / "No End Station" in the place
\* of a missing station name.
C8_TripLabelUsesSentinel ==
    (FilterReached /\ pc = "returned")
    => \A i \in DOMAIN df.rows :
          LET cells == df.rows[i].cells
          IN  cells["Trip"] =
                 (IF cells["Start Station"] = NA THEN "No Start Station"
                  ELSE cells["Start Station"])
                 \o " to "
                 \o (IF cells["End Station"] = NA THEN "No End Station"
                     ELSE cells["End Station"])

(***************************************************************************)
(* SpecStats: a statistics routine called on a table load_data returned.   *)
(***************************************************************************)
\* the month and day arguments of the loads whose tables the routines get
StatsMonths == {<<"a", "l", "l">>, <<"m", "a", "r", "c", "h">>, <<"m", "a", "y">>}
StatsDays == {<<"a", "l", "l">>, <<"m", "o", "n", "d", "a", "y">>}

InitStats ==
    /\ pc = "loaded"
    /\ city = <<"c", "h", "i", "c", "a", "g", "o">>
    /\ month \in StatsMonths
    /\ day \in StatsDays
    /\ csv \in CsvFiles
    /\ \E keeps_na \in BOOLEAN :
          LET r == load_data(city, month, day, csv, keeps_na)
          IN  r.err = NoError /\ df = r.df
    /\ err = NoError
    /\ out = <<>>
    /\ row_index = 0
    /\ seconds = nan
    /\ choice = ""
    /\ typed = <<>>

CallStats(name) ==
    /\ pc = "loaded"
    /\ LET r == call_stats_func(name, df)
       IN  /\ err' = r.err
           /\ out' = r.out
           /\ pc' = IF r.err = NoError THEN "returned" ELSE "raised"
    /\ choice' = name
    /\ UNCHANGED <<city, month, day, csv, df, row_index, seconds, typed>>

CallTimeStats == CallStats("time_stats")
CallStationStats == CallStats("station_stats")
CallTripDurationStats == CallStats("trip_duration_stats")
CallUserStats == CallStats("user_stats")

NextStats ==
    \/ CallTimeStats
    \/ CallStationStats
    \/ CallTripDurationStats
    \/ CallUserStats

SpecStats == InitStats /\ [][NextStats]_vars

(***************************************************************************)
(* Properties of the statistics routines, under SpecStats.                 *)
(***************************************************************************)
StatsCalled == pc \in {"returned", "raised"}

\* the routine printed its "Error calculating ..." line, or user_stats its
\* "Error processing birth years" line
ErrorReported ==
    \E i \in DOMAIN out :
       out[i] \in
          {"Error calculating " \o what \o ": index 0 is out of bounds for axis 0 with size 0" :
              what \in {"time stats", "station stats", "trip duration stats", "user stats"}}
          \cup {"Error processing birth years: zero-size array to reduction "
                    \o "operation fmin which has no identity"}

\* C4: on an empty table with all columns present, each of the four routines
\* reports a caught error and returns normally.
C4_EmptyTableErrorCaught ==
    (StatsCalled /\ df.rows = <<>>
        /\ df.columns = (CSV_COLUMNS \ {INDEX_COL}) \cup DERIVED_COLUMNS)
    => pc = "returned" /\ err = NoError /\ ErrorReported

\* the columns a routine requires
RequiredColumns(name) ==
    CASE name = "time_stats" -> {"Month", "Day Name", "Start Time"}
      [] name = "station_stats" -> {"Start Station", "End Station", "Trip"}
      [] name = "trip_duration_stats" -> {"Trip Duration"}
      [] name = "user_stats" -> {}

\* the words a routine uses for itself in its error line
StatsWhat(name) ==
    CASE name = "time_stats" -> "time stats"
      [] name = "station_stats" -> "station stats"
      [] name = "trip_duration_stats" -> "trip duration stats"
      [] name = "user_stats" -> "user stats"

\* C5: a routine called on a table that lacks a column it requires catches
\* the failure, reports it as a message and returns normally.
C5_MissingColumnErrorCaught ==
    (StatsCalled /\ ~(RequiredColumns(choice) \subseteq df.columns))
    => /\ pc = "returned" /\ err = NoError
       /\ \E i \in DOMAIN out, c \in RequiredColumns(choice) \ df.columns :
             out[i] = "Error calculating " \o StatsWhat(choice) \o ": '" \o c \o "'"

\* the lines of user_stats' three sub-reports, for the table in df
UserCountsShown ==
    \E i \in DOMAIN out :
       out[i] = "User Counts:\n" \o counts_text(value_counts(column(df, "User Type"))) \o "\n"
GenderCountsShown ==
    \E i \in DOMAIN out :
       out[i] = "Gender Counts:\n" \o counts_text(value_counts(column(df, "Gender"))) \o "\n"
BirthYearFailureShown ==
    /\ \E i \in DOMAIN out :
          out[i] = "Error processing birth years: zero-size array to reduction "
                       \o "operation fmin which has no identity"
    /\ \E i \in DOMAIN out : out[i] = "Birth year data may contain invalid values.\n"
BirthYearsOfTrips == {Trips[k].by.num : k \in {j \in DOMAIN Trips : ~isnan(Trips[j].by)}}
BirthYearStatsShown ==
    /\ \E i \in DOMAIN out, y \in BirthYearsOfTrips :
          out[i] = "Earliest birth year: " \o ToString(y)
    /\ \E i \in DOMAIN out, y \in BirthYearsOfTrips :
          out[i] = "Most recent birth year: " \o ToString(y)
    /\ \E i \in DOMAIN out, y \in BirthYearsOfTrips :
          out[i] = "Most common birth year: " \o ToString(y) \o "\n"
BirthYearDegenerate ==
    \A i \in DOMAIN df.rows : isnan(df.rows[i].cells["Birth Year"])

\* C9: user_stats always returns normally; it prints the User Type, Gender
\* and Birth Year sub-reports for exactly the columns the table has, and
\* nothing else but its title, separators and timing; when Birth Year is
\* there with every value missing (or no row), the Birth Year failure is
\* reported in the place of the Birth Year figures, after the User Type and
\* Gender counts.
C9_UserStatsSubReports ==
    (StatsCalled /\ choice = "user_stats")
    => /\ pc = "returned" /\ err = NoError
       /\ Len(out) = 4 + (IF "User Type" \in df.columns THEN 1 ELSE 0)
                       + (IF "Gender" \in df.columns THEN 1 ELSE 0)
                       + (IF "Birth Year" \notin df.columns THEN 0
                          ELSE IF BirthYearDegenerate THEN 2 ELSE 3)
       /\ "User Type" \in df.columns => UserCountsShown
       /\ "Gender" \in df.columns => GenderCountsShown
       /\ ("Birth Year" \in df.columns /\ BirthYearDegenerate) => BirthYearFailureShown
       /\ ("Birth Year" \in df.columns /\ ~BirthYearDegenerate) => BirthYearStatsShown

\* user_stats has run on a table with rows whose Birth Year values are all
\* missing: the failure is reported and both counts are shown
C9_Witness ==
    /\ StatsCalled /\ choice = "user_stats" /\ pc = "returned"
    /\ {"User Type", "Gender", "Birth Year"} \subseteq df.columns
    /\ Len(df.rows) >= 1
    /\ BirthYearDegenerate
    /\ BirthYearFailureShown /\ UserCountsShown /\ GenderCountsShown

(***************************************************************************)
(* SpecFormat: format_duration called on a whole number of seconds, or on   *)
(* the mean n / d of d trip durations that sum to n.                        *)
(***************************************************************************)
InitFormat ==
    /\ pc = "call"
    /\ seconds \in {Float(n) : n \in 0..MaxSeconds}
                   \cup {[num |-> n, den |-> d] : n \in 0..MaxTotal, d \in 2..MaxTrips}
    /\ city = <<>>
    /\ month = <<>>
    /\ day = <<>>
    /\ csv = NoFile
    /\ df = NoTable
    /\ err = NoError
    /\ out = <<>>
    /\ row_index = 0
    /\ choice = ""
    /\ typed = <<>>

CallFormatDuration ==
    /\ pc = "call"
    /\ LET r == format_duration(seconds)
       IN  /\ err' = r.err
           /\ out' = <<r.text>>
           /\ pc' = IF r.err = NoError THEN "returned" ELSE "raised"
    /\ UNCHANGED <<city, month, day, csv, df, row_index, seconds, choice, typed>>

NextFormat == CallFormatDuration

SpecFormat == InitFormat /\ [][NextFormat]_vars

\* the reference formatting of n seconds: the components with their units,
\* those that are not zero joined by single spaces, "0 seconds" when all are
ReferenceFormat(n) ==
    LET parts == <<[k |-> n \div 86400, unit |-> "days"],
                   [k |-> (n % 86400) \div 3600, unit |-> "hours"],
                   [k |-> (n % 3600) \div 60, unit |-> "minutes"],
                   [k |-> n % 60, unit |-> "seconds"]>>
        NonZero(p) == p.k # 0
        shown == SelectSeq(parts, NonZero)
    IN  IF shown = <<>> THEN "0 seconds"
        ELSE Join(" ", [i \in DOMAIN shown |-> ToString(shown[i].k) \o " " \o shown[i].unit])

CarriedSeconds(x) ==
    LET whole == x.num \div x.den
        rest == x.num % x.den
        rounded == IF 2 * rest < x.den THEN whole
                   ELSE IF 2 * rest > x.den THEN whole + 1
                   ELSE IF whole % 2 = 0 THEN whole ELSE whole + 1
    IN  rounded

\* C11: for every duration x >= 0, fractional ones included, the components
\* of format_duration(x) stay in their ranges (hours 0..23, minutes 0..59,
\* seconds 0..59): the text is the reference formatting of x rounded to whole
\* seconds, a rest that rounds up to 60 being carried into the minutes; it
\* never shows "60 seconds".
C11_ComponentsInRange ==
    pc = "returned"
    => /\ out = <<ReferenceFormat(CarriedSeconds(seconds))>>
       /\ \A d \in 0..1, h \in 0..23, m \in 0..59 :
             out # <<duration_text(d, h, m, 60)>>


(***************************************************************************)
(* The interactive session: main, get_filters, user_action_menu,           *)
(* display_raw_data.  pc is the prompt the program is waiting at, typed    *)
(* the line the user typed last, out the lines printed by the last step    *)
(* (prompts and the menu listing left out), choice the statistics routine  *)
(* the menu dispatched last, csv the file the last load found.  main's df  *)
(* is not read between a restart and the next load, which assigns it: it   *)
(* is reset at the restart, and csv with it.                               *)
(***************************************************************************)
\* what the user types at the city prompt
TypedCities ==
    {<<"c", "h", "i", "c", "a", "g", "o">>, <<"W", "a", "s", "h", "i", "n", "g", "t", "o", "n">>, <<"p", "a", "r", "i", "s">>}

\* at the month prompt
TypedMonths ==
    {<<"M", "A", "R", "C", "H">>, <<"j", "u", "n", "e">>, <<"a", "l", "l">>, <<>>, <<"m", "a", "r">>}

\* at the day prompt
TypedDays ==
    {<<"M", "o", "n", "d", "a", "y">>, <<>>, <<"m", "o", "n">>}

\* at a y/n prompt
TypedAnswers ==
    {<<"Y">>, <<"n">>, <<"x">>}

\* at the action menu
TypedChoices ==
    {<<"1">>, <<"2">>, <<"3">>, <<"4">>, <<"5">>, <<"6">>, <<"7">>}

\* get_valid_input, one turn of its loop on the line raw: [valid, value];
\* valid_options is a set of lower-case strings
get_valid_input(raw, valid_options, allow_all) ==
    LET user_input == str_lower(str_strip(raw))
    IN  IF Text(user_input) \in valid_options
        THEN [valid |-> TRUE, value |-> user_input]
        ELSE IF allow_all /\ (Text(user_input) = "" \/ Text(user_input) = ALL_OPTION)
        THEN [valid |-> TRUE, value |-> <<"a", "l", "l">>]
        ELSE [valid |-> FALSE, value |-> <<>>]

INVALID_INPUT == "Invalid input. Please try again.\n"

\* get_user_input, one turn of its loop on the line raw: [valid, value]
get_user_input(raw, valid_responses) ==
    LET response == Text(str_lower(str_strip(raw)))
    IN  IF response \in Range(valid_responses)
        THEN [valid |-> TRUE, value |-> response]
        ELSE [valid |-> FALSE, value |-> ""]

invalid_response(valid_responses) ==
    "Invalid input. Please enter one of: " \o Join(", ", valid_responses)

HELLO == <<"Hello! Let's explore some US bike share data!", SEPARATORS.sep3 \o " \n">>

Init ==
    /\ pc = "city_prompt"
    /\ city = <<>>
    /\ month = <<>>
    /\ day = <<>>
    /\ csv = NoFile
    /\ df = NoTable
    /\ err = NoError
    /\ out = HELLO
    /\ row_index = 0
    /\ seconds = nan
    /\ choice = ""
    /\ typed = <<>>

\* lines 76-82
PromptCity ==
    /\ pc = "city_prompt"
    /\ \E raw \in TypedCities :
          LET r == get_valid_input(raw, DOMAIN CITY_DATA, FALSE)
          IN  /\ typed' = raw
              /\ IF r.valid
                 THEN city' = r.value /\ pc' = "month_prompt"
                      /\ out' = <<SEPARATORS.sep2 \o " \n">>
                 ELSE city' = city /\ pc' = pc /\ out' = <<INVALID_INPUT>>
    /\ UNCHANGED <<month, day, csv, df, err, row_index, seconds, choice>>

\* lines 84-90
PromptMonth ==
    /\ pc = "month_prompt"
    /\ \E raw \in TypedMonths :
          LET r == get_valid_input(raw, Range(VALID_MONTHS), TRUE)
          IN  /\ typed' = raw
              /\ IF r.valid
                 THEN month' = r.value /\ pc' = "day_prompt"
                      /\ out' = <<SEPARATORS.sep2 \o " \n">>
                 ELSE month' = month /\ pc' = pc /\ out' = <<INVALID_INPUT>>
    /\ UNCHANGED <<city, day, csv, df, err, row_index, seconds, choice>>

\* lines 92-100
PromptDay ==
    /\ pc = "day_prompt"
    /\ \E raw \in TypedDays :
          LET r == get_valid_input(raw, Range(VALID_DAYS), TRUE)
          IN  /\ typed' = raw
              /\ IF r.valid
                 THEN day' = r.value /\ pc' = "load" /\ out' = <<SEPARATORS.sep1>>
                 ELSE day' = day /\ pc' = pc /\ out' = <<INVALID_INPUT>>
    /\ UNCHANGED <<city, month, csv, df, err, row_index, seconds, choice>>

\* line 535
error_occurred(e) == "An error occurred: " \o e.msg

\* line 523, and lines 534-535 when load_data raises
LoadData ==
    /\ pc = "load"
    /\ \E file \in CsvFiles \cup {NoFile}, keeps_na \in BOOLEAN :
          LET r == load_data(city, month, day, file, keeps_na)
          IN  /\ csv' = file
              /\ IF r.err = NoError
                 THEN df' = r.df /\ err' = NoError /\ out' = <<>> /\ pc' = "menu"
                 ELSE df' = df /\ err' = r.err /\ out' = <<error_occurred(r.err)>>
                      /\ pc' = "error_prompt"
    /\ UNCHANGED <<city, month, day, row_index, seconds, choice, typed>>

\* lines 477-481
VALID_CHOICES == <<"1", "2", "3", "4", "5", "6">>
RAW_DATA_CHOICE == "5"
EXIT_CHOICE == "6"

\* lines 473-501, one turn of the menu loop; a routine that raises leaves
\* user_action_menu and is caught by main (lines 534-535)
Menu ==
    /\ pc = "menu"
    /\ \E raw \in TypedChoices :
          LET r == get_user_input(raw, VALID_CHOICES)
          IN  /\ typed' = raw
              /\ IF ~r.valid
                 THEN /\ out' = <<invalid_response(VALID_CHOICES)>>
                      /\ UNCHANGED <<pc, err, row_index, choice>>
                 ELSE IF r.value = EXIT_CHOICE
                 THEN /\ out' = <<"\nExiting analysis section. Going back to main program.">>
                      /\ pc' = "restart_prompt"
                      /\ UNCHANGED <<err, row_index, choice>>
                 ELSE IF r.value = RAW_DATA_CHOICE
                 THEN /\ out' = <<>>
                      /\ pc' = "raw_prompt"
                      /\ row_index' = 0
                      /\ UNCHANGED <<err, choice>>
                 ELSE LET name == STATS_FUNCS[IndexOf(VALID_CHOICES, r.value)]
                          s == call_stats_func(name, df)
                      IN  /\ choice' = name
                          /\ row_index' = row_index
                          /\ IF s.err = NoError
                             THEN err' = err /\ out' = s.out /\ pc' = "pause"
                             ELSE err' = s.err
                                  /\ out' = s.out \o <<error_occurred(s.err)>>
                                  /\ pc' = "error_prompt"
    /\ UNCHANGED <<city, month, day, csv, df, seconds>>

\* lines 419-426, 501
WaitForUser ==
    /\ pc = "pause"
    /\ typed' = <<>>
    /\ out' = <<>>
    /\ pc' = "menu"
    /\ UNCHANGED <<city, month, day, csv, df, err, row_index, seconds, choice>>

\* df.iloc[a : b].to_string(), a row shown by its index label
RECURSIVE rows_to_string(_)
rows_to_string(rows) ==
    IF rows = <<>> THEN ""
    ELSE "row " \o ToString(rows[1].index) \o "\n" \o rows_to_string(Tail(rows))

iloc(t, a, b) ==
    SubSeq(t.rows, a + 1, IF b < Len(t.rows) THEN b ELSE Len(t.rows))

\* lines 440-452, one turn of the pager loop
DisplayRawData ==
    /\ pc = "raw_prompt"
    /\ \E raw \in TypedAnswers :
          LET r == get_user_input(raw, <<"y", "n">>)
          IN  /\ typed' = raw
              /\ IF ~r.valid
                 THEN out' = <<invalid_response(<<"y", "n">>)>>
                      /\ UNCHANGED <<pc, row_index>>
                 ELSE IF r.value = "n"
                 THEN out' = <<>> /\ pc' = "menu" /\ row_index' = 0
                 ELSE IF row_index + 5 >= Len(df.rows)
                 THEN /\ out' = <<rows_to_string(iloc(df, row_index, row_index + 5)),
                                  "\nNo more data to display.">>
                      /\ pc' = "menu"
                      /\ row_index' = 0
                 ELSE /\ out' = <<rows_to_string(iloc(df, row_index, row_index + 5))>>
                      /\ pc' = "raw_prompt"
                      /\ row_index' = row_index + 5
    /\ UNCHANGED <<city, month, day, csv, df, err, seconds, choice>>

\* lines 544-545, then get_filters again (line 73)
RESTARTING == <<"\nRestarting the analysis with new filters. Please wait...",
                SEPARATORS.sep1 \o " \n">>

\* lines 548-553
EXIT_MSG == <<"\nExiting the program. Thank you for using the bike share data "
                  \o "analysis program! Come back soon =)",
              SEPARATORS.sep3>>

\* a y/n prompt of main answered with the line raw: "n" leaves the loop, "y"
\* goes round it
restart_or_exit(raw) ==
    LET r == get_user_input(raw, <<"y", "n">>)
    IN  /\ typed' = raw
        /\ IF ~r.valid
           THEN /\ out' = <<invalid_response(<<"y", "n">>)>>
                /\ UNCHANGED <<pc, city, month, day, csv, df, err, choice>>
           ELSE IF r.value = "n"
           THEN /\ out' = EXIT_MSG
                /\ pc' = "exit"
                /\ err' = NoError
                /\ UNCHANGED <<city, month, day, csv, df, choice>>
           ELSE /\ out' = RESTARTING \o HELLO
                /\ pc' = "city_prompt"
                /\ city' = <<>> /\ month' = <<>> /\ day' = <<>>
                /\ csv' = NoFile
                /\ df' = NoTable
                /\ err' = NoError
                /\ choice' = ""
        /\ UNCHANGED <<row_index, seconds>>

\* lines 526-532
RestartPrompt ==
    /\ pc = "restart_prompt"
    /\ \E raw \in TypedAnswers : restart_or_exit(raw)

\* main's error handler leaving the loop on "y" instead of "n"
ErrorPrompt_break_on_yes ==
    /\ pc = "error_prompt"
    /\ \E raw \in TypedAnswers :
          LET r == get_user_input(raw, <<"y", "n">>)
          IN  /\ typed' = raw
              /\ IF ~r.valid
                 THEN /\ out' = <<invalid_response(<<"y", "n">>)>>
                      /\ UNCHANGED <<pc, city, month, day, csv, df, err, choice>>
                 ELSE IF r.value = "y"
                 THEN /\ out' = EXIT_MSG
                      /\ pc' = "exit"
                      /\ err' = NoError
                      /\ UNCHANGED <<city, month, day, csv, df, choice>>
                 ELSE /\ out' = RESTARTING \o HELLO
                      /\ pc' = "city_prompt"
                      /\ city' = <<>> /\ month' = <<>> /\ day' = <<>>
                      /\ csv' = NoFile
                      /\ df' = NoTable
                      /\ err' = NoError
                      /\ choice' = ""
    /\ UNCHANGED <<row_index, seconds>>

\* lines 536-542
ErrorPrompt ==
    /\ pc = "error_prompt"
    /\ \E raw \in TypedAnswers : restart_or_exit(raw)

Next ==
    \/ PromptCity
    \/ PromptMonth
    \/ PromptDay
    \/ LoadData
    \/ Menu
    \/ WaitForUser
    \/ DisplayRawData
    \/ RestartPrompt
    \/ ErrorPrompt

Spec == Init /\ [][Next]_vars

(***************************************************************************)
(* Properties of the session, under Spec.                                  *)
(***************************************************************************)
\* the line just typed, as get_user_input reads it
Answer == Text(str_lower(str_strip(typed')))

\* C6: whatever the loaded table, every invocation of a statistics routine
\* from the action menu goes to the press-Enter pause and from there back to
\* the menu, on the same table: never to main's error handler or to the
\* filter prompts.
C6_StatsErrorsContained ==
    [][/\ (pc = "menu" /\ Answer \in {"1", "2", "3", "4"})
             => pc' = "pause" /\ df' = df
       /\ pc = "pause" => pc' = "menu" /\ df' = df]_vars

\* a file load_data can read: it is there, with the columns the loader uses
LoadableFile(f) ==
    /\ f # NoFile
    /\ DATETIME_COLUMNS \cup {INDEX_COL, "Start Station", "End Station"} \subseteq f.header

\* C10: a load either succeeds and opens the action menu, or its error
\* reaches main, which prints "An error occurred: <message>" and asks
\* whether to restart; there "y" leads back to the first filter prompt with
\* fresh filters, "n" ends the program, any other answer asks again; the
\* program ends only from one of main's two y/n prompts.
C10_LoadErrorsOfferRestart ==
    [][/\ pc = "load"
             => IF LoadableFile(csv')
                THEN pc' = "menu" /\ err' = NoError
                ELSE /\ pc' = "error_prompt"
                     /\ err'.type \in {"FileNotFoundError", "ValueError", "KeyError"}
                     /\ err'.msg # ""
                     /\ out' = <<"An error occurred: " \o err'.msg>>
       /\ pc = "error_prompt"
             => CASE Answer = "y" ->
                       /\ pc' = "city_prompt"
                       /\ city' = <<>> /\ month' = <<>> /\ day' = <<>>
                  [] Answer = "n" -> pc' = "exit"
                  [] OTHER -> pc' = "error_prompt" /\ err' = err
       /\ pc' = "exit" => pc \in {"error_prompt", "restart_prompt"}
       /\ pc # "exit"]_vars

\* the program has ended on "n" at the prompt that followed a load that found
\* no file
C10_Witness ==
    /\ pc = "exit"
    /\ csv = NoFile
    /\ typed = <<"n">>
    /\ out = EXIT_MSG

====
